---- MODULE Spec2Model ----
(***************************************************************************)
(* Model of hybrid_translator.py: the terminology matcher, the quality     *)
(* scorer, the post-processor, the markup-preserving translation driver,   *)
(* the JSON tree walk and the file orchestrator.                           *)
(*                                                                         *)
(* A Python str is a sequence of one-character strings.  The terminology   *)
(* dictionary (terminology_dict.json) and the two translation models are   *)
(* inputs of the program: they are drawn from small sets.                  *)
(***************************************************************************)
EXTENDS Integers, Sequences, FiniteSets

VARIABLES
    pc,            \* position of the call being modelled
    terminology,   \* self.terminology (loaded once, read-only afterwards)
    source_lang,
    target_lang,
    original,      \* QualityChecker: the original text
    translated,    \* QualityChecker: the translated text
    quality,       \* QualityChecker: the last Quality Result
    prev_scored,   \* <<translated, quality>> of the scoring before the last one, or <<>>
    text,          \* the text argument of the call being modelled
    model,         \* the (tokenizer, model) pair handed to the call
    data,          \* the JSON value handed to translate_json_hybrid
    result,        \* what the call returned
    tr_files,      \* run_hybrid: the input files found, each with what reading it gives
    file_idx,      \* run_hybrid: the index in tr_files of the file being translated
    original_data, \* translate_file_hybrid: the locals
    english_data,
    german_data,
    en_jsons_hybrid,  \* the English output folder: per input file, the file written
    de_jsons_hybrid,  \* the German output folder
    outcome        \* how the run ended, "running" until then

vars == <<pc, terminology, source_lang, target_lang, original, translated, quality,
          prev_scored, text, model, data, result, tr_files, file_idx, original_data,
          english_data, german_data, en_jsons_hybrid, de_jsons_hybrid, outcome>>

\* the variables of a run over the input folder, and their value outside a run
run_vars == <<tr_files, file_idx, original_data, english_data, german_data,
              en_jsons_hybrid, de_jsons_hybrid, outcome>>

RunIdle ==
    /\ tr_files = <<>> /\ file_idx = 0
    /\ original_data = <<>> /\ english_data = <<>> /\ german_data = <<>>
    /\ en_jsons_hybrid = <<>> /\ de_jsons_hybrid = <<>> /\ outcome = "none"

\* the variables of the quality scorer, and their value where it is not in use
scorer_vars == <<original, translated, quality, prev_scored>>

ScorerIdle ==
    original = <<>> /\ translated = <<>> /\ quality = <<>> /\ prev_scored = <<>>

(***************************************************************************)
(* Python str primitives                                                   *)
(***************************************************************************)
LowerLetters ==
    <<"a","b","c","d","e","f","g","h","i","j","k","l","m",
      "n","o","p","q","r","s","t","u","v","w","x","y","z">>

UpperLetters ==
    <<"A","B","C","D","E","F","G","H","I","J","K","L","M",
      "N","O","P","Q","R","S","T","U","V","W","X","Y","Z">>

Digits == {"0","1","2","3","4","5","6","7","8","9"}

\* [a-z]
IsLowerAZ(c) == \E i \in 1..26 : LowerLetters[i] = c

IsUpperAZ(c) == \E i \in 1..26 : UpperLetters[i] = c

\* \w
IsWordChar(c) == IsLowerAZ(c) \/ IsUpperAZ(c) \/ c \in Digits \/ c = "_"

\* \s, and the characters str.strip() and str.split() remove
IsSpace(c) == c \in {" ", "\t", "\n"}

lower_char(c) ==
    IF IsUpperAZ(c) THEN LowerLetters[CHOOSE i \in 1..26 : UpperLetters[i] = c] ELSE c

upper_char(c) ==
    IF IsLowerAZ(c) THEN UpperLetters[CHOOSE i \in 1..26 : LowerLetters[i] = c] ELSE c

\* str.lower()
lower(s) == [i \in 1..Len(s) |-> lower_char(s[i])]

\* s[i:i+len(sub)] == sub
MatchAt(s, sub, i) ==
    /\ i >= 1
    /\ i + Len(sub) - 1 <= Len(s)
    /\ SubSeq(s, i, i + Len(sub) - 1) = sub

\* sub in s
Contains(s, sub) == \E i \in 1..(Len(s) - Len(sub) + 1) : MatchAt(s, sub, i)

\* str.strip()
strip(s) ==
    LET keep == {i \in 1..Len(s) : ~IsSpace(s[i])}
    IN  IF keep = {} THEN <<>>
        ELSE SubSeq(s, CHOOSE i \in keep : \A j \in keep : i <= j,
                       CHOOSE i \in keep : \A j \in keep : i >= j)

\* index of the first ">" after position i, 0 when there is none
NextClose(s, i) ==
    LET closes == {j \in (i+1)..Len(s) : s[j] = ">"}
    IN  IF closes = {} THEN 0 ELSE CHOOSE j \in closes : \A k \in closes : j <= k

\* set(re.findall(r'<[^>]+>', s)): leftmost, non-overlapping matches from position i on
RECURSIVE FindTagsFrom(_, _)
FindTagsFrom(s, i) ==
    IF i > Len(s) THEN {}
    ELSE IF s[i] = "<" /\ NextClose(s, i) > i + 1
         THEN {SubSeq(s, i, NextClose(s, i))} \cup FindTagsFrom(s, NextClose(s, i) + 1)
         ELSE FindTagsFrom(s, i + 1)

find_tags(s) == FindTagsFrom(s, 1)

Max(a, b) == IF a >= b THEN a ELSE b

(***************************************************************************)
(* The terminology dictionary.  A Python dict is the sequence of its       *)
(* entries in insertion order.  A missing file loads as {} and every       *)
(* .get(..., {}) then yields an empty mapping: EmptyTerminology.           *)
(***************************************************************************)
EmptyTerminology ==
    [turkish_to_english |-> <<>>, english_to_german |-> <<>>,
     cm_english |-> <<>>, cm_german |-> <<>>]

\* self.quality_patterns.get("common_mistakes", {}).get(target_lang, {})
common_mistakes(lang) ==
    IF lang = "english" THEN terminology.cm_english
    ELSE IF lang = "german" THEN terminology.cm_german
    ELSE <<>>

(***************************************************************************)
(* QualityChecker                                                          *)
(***************************************************************************)
\* the (correct_term, wrong_term) pairs in the order of the two nested loops
RECURSIVE MistakeEntries(_)
MistakeEntries(cm) ==
    IF cm = <<>> THEN <<>>
    ELSE [j \in 1..Len(Head(cm).wrong_variants) |->
            [type |-> "common_mistake",
             wrong_term |-> Head(cm).wrong_variants[j],
             correct_term |-> Head(cm).correct_term,
             confidence |-> "0.9"]]
         \o MistakeEntries(Tail(cm))

\* a case-sensitive test: "wrong_term in text"
check_common_mistakes_case_sensitive(t, lang) ==
    LET Hit(m) == Contains(t, m.wrong_term)
    IN  SelectSeq(MistakeEntries(common_mistakes(lang)), Hit)

check_common_mistakes(t, lang) ==
    LET text_lower == lower(t)
        Hit(m) == Contains(text_lower, lower(m.wrong_term))
    IN  SelectSeq(MistakeEntries(common_mistakes(lang)), Hit)

\* each mistake adds 20 ("score += 20")
calculate_quality_score_adds(orig, trans, lang) ==
    LET mistakes == check_common_mistakes(trans, lang)
        score1   == 100 + 20 * Len(mistakes)
        issues1  == mistakes
        empty    == strip(trans) = <<>>
        score2   == IF empty THEN 0 ELSE score1
        issues2  == IF empty
                    THEN Append(issues1, [type |-> "empty_translation", confidence |-> "1.0"])
                    ELSE issues1
        \* len(translated) < len(original) * 0.2
        short    == 5 * Len(trans) < Len(orig)
        score3   == IF short THEN score2 - 15 ELSE score2
        issues3  == IF short
                    THEN Append(issues2, [type |-> "too_short", confidence |-> "0.7"])
                    ELSE issues2
        mismatch == find_tags(orig) # find_tags(trans)
        score4   == IF mismatch THEN score3 - 10 ELSE score3
        issues4  == IF mismatch
                    THEN Append(issues3, [type |-> "html_mismatch", confidence |-> "0.8"])
                    ELSE issues3
    IN  [score |-> Max(0, score4), issues |-> issues4, needs_review |-> score4 < 70]

\* the empty check without strip(): "if not translated"
calculate_quality_score_no_strip(orig, trans, lang) ==
    LET mistakes == check_common_mistakes(trans, lang)
        score1   == 100 - 20 * Len(mistakes)
        issues1  == mistakes
        empty    == trans = <<>>
        score2   == IF empty THEN 0 ELSE score1
        issues2  == IF empty
                    THEN Append(issues1, [type |-> "empty_translation", confidence |-> "1.0"])
                    ELSE issues1
        \* len(translated) < len(original) * 0.2
        short    == 5 * Len(trans) < Len(orig)
        score3   == IF short THEN score2 - 15 ELSE score2
        issues3  == IF short
                    THEN Append(issues2, [type |-> "too_short", confidence |-> "0.7"])
                    ELSE issues2
        mismatch == find_tags(orig) # find_tags(trans)
        score4   == IF mismatch THEN score3 - 10 ELSE score3
        issues4  == IF mismatch
                    THEN Append(issues3, [type |-> "html_mismatch", confidence |-> "0.8"])
                    ELSE issues3
    IN  [score |-> Max(0, score4), issues |-> issues4, needs_review |-> score4 < 70]

\* the score returned without max(0, ...)
calculate_quality_score_no_floor(orig, trans, lang) ==
    LET mistakes == check_common_mistakes(trans, lang)
        score1   == 100 - 20 * Len(mistakes)
        issues1  == mistakes
        empty    == strip(trans) = <<>>
        score2   == IF empty THEN 0 ELSE score1
        issues2  == IF empty
                    THEN Append(issues1, [type |-> "empty_translation", confidence |-> "1.0"])
                    ELSE issues1
        \* len(translated) < len(original) * 0.2
        short    == 5 * Len(trans) < Len(orig)
        score3   == IF short THEN score2 - 15 ELSE score2
        issues3  == IF short
                    THEN Append(issues2, [type |-> "too_short", confidence |-> "0.7"])
                    ELSE issues2
        mismatch == find_tags(orig) # find_tags(trans)
        score4   == IF mismatch THEN score3 - 10 ELSE score3
        issues4  == IF mismatch
                    THEN Append(issues3, [type |-> "html_mismatch", confidence |-> "0.8"])
                    ELSE issues3
    IN  [score |-> score4, issues |-> issues4, needs_review |-> score4 < 70]

calculate_quality_score(orig, trans, lang) ==
    LET mistakes == check_common_mistakes(trans, lang)
        score1   == 100 - 20 * Len(mistakes)
        issues1  == mistakes
        empty    == strip(trans) = <<>>
        score2   == IF empty THEN 0 ELSE score1
        issues2  == IF empty
                    THEN Append(issues1, [type |-> "empty_translation", confidence |-> "1.0"])
                    ELSE issues1
        \* len(translated) < len(original) * 0.2
        short    == 5 * Len(trans) < Len(orig)
        score3   == IF short THEN score2 - 15 ELSE score2
        issues3  == IF short
                    THEN Append(issues2, [type |-> "too_short", confidence |-> "0.7"])
                    ELSE issues2
        mismatch == find_tags(orig) # find_tags(trans)
        score4   == IF mismatch THEN score3 - 10 ELSE score3
        issues4  == IF mismatch
                    THEN Append(issues3, [type |-> "html_mismatch", confidence |-> "0.8"])
                    ELSE issues3
    IN  [score |-> Max(0, score4), issues |-> issues4, needs_review |-> score4 < 70]

(***************************************************************************)
(* TerminologyTranslator                                                   *)
(***************************************************************************)
\* dict.get(key): [found, value]; a dict is a sequence of <<key, value>> entries
DictGet(d, key) ==
    IF \E i \in DOMAIN d : d[i][1] = key
    THEN [found |-> TRUE, value |-> d[CHOOSE i \in DOMAIN d : d[i][1] = key][2]]
    ELSE [found |-> FALSE, value |-> <<>>]

\* "if term_translation:" is false for None and for the empty string
Truthy(r) == r.found /\ r.value # <<>>

get_term_translation(t, src, tgt) ==
    IF src = "turkish" /\ tgt = "english"
    THEN DictGet(terminology.turkish_to_english, lower(t))
    ELSE IF src = "english" /\ tgt = "german"
    THEN DictGet(terminology.english_to_german, lower(t))
    ELSE [found |-> FALSE, value |-> <<>>]

\* str.split(): the maximal runs of non-whitespace characters
RECURSIVE SplitFrom(_, _, _)
SplitFrom(s, i, word) ==
    IF i > Len(s) THEN (IF word = <<>> THEN <<>> ELSE <<word>>)
    ELSE IF IsSpace(s[i])
         THEN (IF word = <<>> THEN <<>> ELSE <<word>>) \o SplitFrom(s, i + 1, <<>>)
         ELSE SplitFrom(s, i + 1, Append(word, s[i]))

split(s) == SplitFrom(s, 1, <<>>)

\* ' '.join(words)
RECURSIVE join(_)
join(words) ==
    IF words = <<>> THEN <<>>
    ELSE IF Len(words) = 1 THEN words[1]
    ELSE words[1] \o <<" ">> \o join(Tail(words))

KeepsWordOrSpace(c) == IsWordChar(c) \/ IsSpace(c)

\* re.sub(r'[^\w\s]', '', word).lower()
clean_word(word) == lower(SelectSeq(word, KeepsWordOrSpace))

translate_with_terminology(t, src, tgt) ==
    LET term_translation == get_term_translation(t, src, tgt)
        words == split(t)
        term_trans(w) == get_term_translation(clean_word(w), src, tgt)
        translated_words ==
            [i \in DOMAIN words |->
                IF Truthy(term_trans(words[i])) THEN term_trans(words[i]).value ELSE words[i]]
        has_terminology == \E i \in DOMAIN words : Truthy(term_trans(words[i]))
    IN  IF Truthy(term_translation) THEN <<term_translation.value, TRUE>>
        ELSE IF Len(words) > 1 /\ has_terminology THEN <<join(translated_words), TRUE>>
        ELSE <<t, FALSE>>

(***************************************************************************)
(* PostProcessor                                                           *)
(***************************************************************************)
\* re.sub(re.escape(wrong), correct, s, flags=re.IGNORECASE) from position i on:
\* every non-overlapping match, leftmost first (wrong is not empty)
RECURSIVE SubFrom(_, _, _, _)
SubFrom(s, wrong, correct, i) ==
    IF i > Len(s) THEN <<>>
    ELSE IF MatchAt(lower(s), lower(wrong), i)
         THEN correct \o SubFrom(s, wrong, correct, i + Len(wrong))
         ELSE <<s[i]>> \o SubFrom(s, wrong, correct, i + 1)

\* the loop of fix_common_mistakes over the mistakes found in the text it was given
RECURSIVE ApplyMistakeFixes(_, _)
ApplyMistakeFixes(s, mistakes) ==
    IF mistakes = <<>> THEN s
    ELSE ApplyMistakeFixes(SubFrom(s, Head(mistakes).wrong_term, Head(mistakes).correct_term, 1),
                           Tail(mistakes))

fix_common_mistakes(t, lang) == ApplyMistakeFixes(t, check_common_mistakes(t, lang))

\* the common_fixes table, in its order
common_fixes ==
    << << <<"i","n","t","r","o","d","u","c","t","i","o","n">>, <<"l","o","g","i","n">> >>,
       << <<"e","x","i","t">>, <<"l","o","g","o","u","t">> >>,
       << <<"m","e","r","c","e","n","a","r","y"," ","k","u","r","d","s">>,
          <<"e","x","c","h","a","n","g","e"," ","r","a","t","e","s">> >>,
       << <<"b","a","y","i","e","r","s">>, <<"d","e","a","l","e","r","s">> >>,
       << <<"v","a","r","i","e","n","t">>, <<"v","a","r","i","a","n","t">> >>,
       << <<"c","o","p","y","e","d">>, <<"c","o","p","i","e","d">> >>,
       << <<"a","b","s","o","r","p","t","i","o","n","s">>,
          <<"s","u","b","s","c","r","i","p","t","i","o","n","s">> >>,
       << <<"r","e","s","o","r","p","t","i","o","n","e","n">>,
          <<"a","b","o","n","n","e","m","e","n","t","s">> >> >>

\* \b before position i of s (i = Len(s) + 1: at the end)
WordBoundary(s, i) ==
    LET before == i > 1 /\ i - 1 <= Len(s) /\ IsWordChar(s[i - 1])
        after  == i >= 1 /\ i <= Len(s) /\ IsWordChar(s[i])
    IN  before # after

\* re.sub(r'\b' + re.escape(wrong) + r'\b', correct, s, flags=re.IGNORECASE)
RECURSIVE SubWordsFrom(_, _, _, _)
SubWordsFrom(s, wrong, correct, i) ==
    IF i > Len(s) THEN <<>>
    ELSE IF /\ MatchAt(lower(s), wrong, i)
            /\ WordBoundary(s, i)
            /\ WordBoundary(s, i + Len(wrong))
         THEN correct \o SubWordsFrom(s, wrong, correct, i + Len(wrong))
         ELSE <<s[i]>> \o SubWordsFrom(s, wrong, correct, i + 1)

\* re.sub(..., count=1): only the first whole-word match is replaced
RECURSIVE SubFirstWordFrom(_, _, _, _)
SubFirstWordFrom(s, wrong, correct, i) ==
    IF i > Len(s) THEN <<>>
    ELSE IF /\ MatchAt(lower(s), wrong, i)
            /\ WordBoundary(s, i)
            /\ WordBoundary(s, i + Len(wrong))
         THEN correct \o SubSeq(s, i + Len(wrong), Len(s))
         ELSE <<s[i]>> \o SubFirstWordFrom(s, wrong, correct, i + 1)

\* the loop over common_fixes; text_lower is computed once, before the loop
RECURSIVE ApplyCommonFixes(_, _, _)
ApplyCommonFixes(s, text_lower, fixes) ==
    IF fixes = <<>> THEN s
    ELSE ApplyCommonFixes(
            IF Contains(text_lower, Head(fixes)[1])
            THEN SubWordsFrom(s, Head(fixes)[1], Head(fixes)[2], 1)
            ELSE s,
            text_lower, Tail(fixes))

RECURSIVE ApplyCommonFixesFirstOnly(_, _, _)
ApplyCommonFixesFirstOnly(s, text_lower, fixes) ==
    IF fixes = <<>> THEN s
    ELSE ApplyCommonFixesFirstOnly(
            IF Contains(text_lower, Head(fixes)[1])
            THEN SubFirstWordFrom(s, Head(fixes)[1], Head(fixes)[2], 1)
            ELSE s,
            text_lower, Tail(fixes))

\* each fix replaces only the first whole-word match
apply_terminology_fixes_first_only(t, src, tgt) ==
    ApplyCommonFixesFirstOnly(t, lower(t), common_fixes)

\* reverse_terminology is built from the language pair and never used: the
\* common_fixes are applied for every language pair
apply_terminology_fixes(t, src, tgt) == ApplyCommonFixes(t, lower(t), common_fixes)

IsSentenceEnd(c) == c \in {".", "!", "?"}

\* position j of s holds the ([a-z]) of a match of (^|[.!?]\s+)([a-z])
StartsSentence(s, j) ==
    /\ IsLowerAZ(s[j])
    /\ \/ j = 1
       \/ \E i \in 1..(j - 2) :
            /\ IsSentenceEnd(s[i])
            /\ \A k \in (i + 1)..(j - 1) : IsSpace(s[k])

normalize_capitalization(t) ==
    [j \in 1..Len(t) |-> IF StartsSentence(t, j) THEN upper_char(t[j]) ELSE t[j]]

process_translation(orig, trans, src, tgt) ==
    LET processed1 == fix_common_mistakes(trans, tgt)
        processed2 == apply_terminology_fixes(processed1, src, tgt)
        processed3 == normalize_capitalization(processed2)
    IN  [original |-> orig,
         raw_translation |-> trans,
         processed_translation |-> processed3,
         quality |-> calculate_quality_score(orig, processed3, tgt),
         improved |-> processed3 # trans]

(***************************************************************************)
(* HybridTranslator: the translation of one string                         *)
(***************************************************************************)
IsMarkupChar(c) == c \in {"<", ">"}

NotMarkupChar(c) == ~IsMarkupChar(c)

\* tokenizer.decode(model.generate(...)): the external translation function.
\* It is an input of the program; these are four functions whose outputs hold
\* no '<' and no '>'.
Generate(m, s) ==
    LET plain == SelectSeq(s, NotMarkupChar)
    IN  IF m = "opus-mt-tr-en"
        THEN (IF lower(plain) = <<"c","i","k","i","s">> THEN <<"e","x","i","t">>
              ELSE IF lower(plain) = <<"h","i">> THEN <<"h","e","y"," ">>
              ELSE plain)
        ELSE IF m = "opus-mt-en-de"
        THEN (IF lower(plain) = <<"l","o","g","o","u","t">> THEN <<"a","b","m","e","l","d","e","n">>
              ELSE IF lower(plain) = <<"e","x","i","t">> THEN <<"a","u","s","g","a","n","g">>
              ELSE plain)
        ELSE IF m = "constant" THEN <<"o","k",".", " ", "g","o">>
        ELSE <<>>

\* re.split(r'(<[^>]*>)', s) from position i on, without the empty parts that
\* the loop skips ("if not part: continue"); cur is the part being collected
RECURSIVE HtmlPartsFrom(_, _, _)
HtmlPartsFrom(s, i, cur) ==
    IF i > Len(s) THEN (IF cur = <<>> THEN <<>> ELSE <<cur>>)
    ELSE IF s[i] = "<" /\ NextClose(s, i) > 0
         THEN (IF cur = <<>> THEN <<>> ELSE <<cur>>)
              \o <<SubSeq(s, i, NextClose(s, i))>>
              \o HtmlPartsFrom(s, NextClose(s, i) + 1, <<>>)
         ELSE HtmlPartsFrom(s, i + 1, Append(cur, s[i]))

\* part.startswith('<') and part.endswith('>')
IsTagPart(part) == part[1] = "<" /\ part[Len(part)] = ">"

\* the body of the loop over the parts
TranslatePart(part, m) ==
    IF IsTagPart(part) THEN part
    ELSE IF strip(part) = <<>> THEN part
    ELSE (IF part[1] = " " THEN <<" ">> ELSE <<>>)
         \o strip(Generate(m, strip(part)))
         \o (IF part[Len(part)] = " " THEN <<" ">> ELSE <<>>)

\* ''.join(parts)
RECURSIVE Concat(_)
Concat(parts) == IF parts = <<>> THEN <<>> ELSE Head(parts) \o Concat(Tail(parts))

translate_text_with_html(t, m) ==
    IF ~Contains(t, <<"<">>) THEN strip(Generate(m, t))
    ELSE LET parts == HtmlPartsFrom(t, 1, <<>>)
         IN  Concat([k \in DOMAIN parts |-> TranslatePart(parts[k], m)])

translate_text_hybrid(t, src, tgt, m) ==
    LET model_translation ==
            IF Contains(t, <<"<">>) THEN translate_text_with_html(t, m)
            ELSE strip(Generate(m, t))
        r == process_translation(t, model_translation, src, tgt)
    IN  [original |-> r.original,
         raw_translation |-> r.raw_translation,
         processed_translation |-> r.processed_translation,
         quality |-> r.quality,
         improved |-> r.improved,
         method |-> "model+terminology_postprocess"]

(***************************************************************************)
(* HybridTranslator: the JSON tree.  A value is a record tagged with its   *)
(* Python type: dict (keys and values in insertion order), list, str, int, *)
(* bool, None.                                                             *)
(***************************************************************************)
\* a walk without the final "else: return data": other leaves come back as None
RECURSIVE translate_json_hybrid_no_else(_, _, _, _)
translate_json_hybrid_no_else(d, src, tgt, m) ==
    IF d.type = "dict"
    THEN [type |-> "dict", keys |-> d.keys,
          values |-> [k \in DOMAIN d.values |->
                        translate_json_hybrid_no_else(d.values[k], src, tgt, m)]]
    ELSE IF d.type = "list"
    THEN [type |-> "list",
          items |-> [k \in DOMAIN d.items |->
                        translate_json_hybrid_no_else(d.items[k], src, tgt, m)]]
    ELSE IF d.type = "str"
    THEN [type |-> "str", s |-> translate_text_hybrid(d.s, src, tgt, m).processed_translation]
    ELSE [type |-> "None"]

RECURSIVE translate_json_hybrid(_, _, _, _)
translate_json_hybrid(d, src, tgt, m) ==
    IF d.type = "dict"
    THEN [type |-> "dict", keys |-> d.keys,
          values |-> [k \in DOMAIN d.values |->
                        translate_json_hybrid(d.values[k], src, tgt, m)]]
    ELSE IF d.type = "list"
    THEN [type |-> "list",
          items |-> [k \in DOMAIN d.items |->
                        translate_json_hybrid(d.items[k], src, tgt, m)]]
    ELSE IF d.type = "str"
    THEN [type |-> "str", s |-> translate_text_hybrid(d.s, src, tgt, m).processed_translation]
    ELSE d

(***************************************************************************)
(* Inputs of the quality scorer                                            *)
(***************************************************************************)
MaxTranslatedLen == 5

\* english: one correct term with two wrong variants; german: a variant that
\* differs from the text only by case, and a variant made of whitespace
DictMistakes ==
    [EmptyTerminology EXCEPT
       !.cm_english = << [correct_term |-> <<"o","k">>,
                          wrong_variants |-> << <<"a","b">>, <<"b",">">> >>] >>,
       !.cm_german  = << [correct_term |-> <<"j","a">>,
                          wrong_variants |-> << <<"A">>, <<" ">> >>] >>]

\* six wrong variants for english under two correct terms
DictManyMistakes ==
    [EmptyTerminology EXCEPT
       !.cm_english = << [correct_term |-> <<"o","k">>,
                          wrong_variants |-> << <<"a">>, <<"b">>, <<"a","b">> >>],
                         [correct_term |-> <<"n","o">>,
                          wrong_variants |-> << <<"b","a">>, <<"a","a">>, <<"b","b">> >>] >>]

ScorerDictionaries == {EmptyTerminology, DictMistakes, DictManyMistakes}

TargetLangs == {"english", "german", "french"}

Originals ==
    { <<>>,
      <<"a","b">>,
      <<"<","b",">","m","e","r","h","a","b","a"," ","d","u","n","y">>,
      <<"m","e","r","h","a","b","a"," ","d","u","n">> }

SeedTranslations ==
    { <<>>, <<" ">>, <<"<">>, <<"x">>, <<"a","b">>, <<"<","b",">","x">> }

Range(f) == {f[i] : i \in DOMAIN f}

\* the known wrong-term variants for a target language
WrongVariants(lang) == {m.wrong_term : m \in Range(MistakeEntries(common_mistakes(lang)))}

\* s with w put in after its first i characters
InsertAt(s, w, i) == SubSeq(s, 1, i) \o w \o SubSeq(s, i + 1, Len(s))

ScorerInit ==
    /\ pc = "scored"
    /\ terminology \in ScorerDictionaries
    /\ source_lang = "turkish"
    /\ target_lang \in TargetLangs
    /\ original \in Originals
    /\ translated \in SeedTranslations
    /\ quality = calculate_quality_score(original, translated, target_lang)
    /\ prev_scored = <<>>
    /\ text = <<>>
    /\ model = "none"
    /\ data = <<>>
    /\ result = <<>>
    /\ RunIdle

\* one more occurrence of a known wrong-term variant is introduced into the
\* translation (original, target_lang and dictionary held fixed) and it is rescored
IntroduceWrongTerm ==
    /\ pc = "scored"
    /\ \E w \in WrongVariants(target_lang), i \in 0..Len(translated) :
         /\ Len(translated) + Len(w) <= MaxTranslatedLen
         /\ translated' = InsertAt(translated, w, i)
         /\ quality' = calculate_quality_score(original, translated', target_lang)
    /\ prev_scored' = <<translated, quality>>
    /\ UNCHANGED <<pc, terminology, source_lang, target_lang, original, text, model, data, result,
                   run_vars>>

ScorerNext == IntroduceWrongTerm

ScorerSpec == ScorerInit /\ [][ScorerNext]_vars

(***************************************************************************)
(* Inputs shared by the calls below                                        *)
(***************************************************************************)
\* every concatenation of at most n pieces
RECURSIVE TextsOf(_, _)
TextsOf(pieces, n) ==
    IF n = 0 THEN {<<>>}
    ELSE TextsOf(pieces, n - 1) \cup {p \o t : p \in pieces, t \in TextsOf(pieces, n - 1)}

\* the two supported language pairs and one that is not
LangPairs == {<<"turkish", "english">>, <<"english", "german">>, <<"german", "french">>}

\* the value of the variables of a call where none is being modelled
CallIdle == text = <<>> /\ model = "none" /\ data = <<>> /\ result = <<>>

(***************************************************************************)
(* TerminologyTranslator.translate_with_terminology, called on any text    *)
(***************************************************************************)
MaxTermPieces == 3

DictTerms ==
    [EmptyTerminology EXCEPT
       !.turkish_to_english =
           << << <<"c","i","k","i","s">>, <<"l","o","g","o","u","t">> >>,
              << <<"g","i","r","i","s"," ","y","a","p">>, <<"l","o","g","i","n">> >> >>,
       !.english_to_german =
           << << <<"c","i","k","i","s">>, <<"a","u","s">> >> >>]

TermPieces ==
    { <<"c","i","k","i","s">>, <<"C","i","k","i","s","!">>, <<"g","i","r","i","s">>,
      <<"y","a","p">>, <<" ">> }

TermInit ==
    /\ pc = "call"
    /\ terminology \in {EmptyTerminology, DictTerms}
    /\ \E pair \in LangPairs : source_lang = pair[1] /\ target_lang = pair[2]
    /\ text \in TextsOf(TermPieces, MaxTermPieces)
    /\ model = "none"
    /\ data = <<>>
    /\ result = <<>>
    /\ ScorerIdle
    /\ RunIdle

TranslateWithTerminology ==
    /\ pc = "call"
    /\ result' = translate_with_terminology(text, source_lang, target_lang)
    /\ pc' = "done"
    /\ UNCHANGED <<terminology, source_lang, target_lang, text, model, data, scorer_vars, run_vars>>

TermNext == TranslateWithTerminology

TermSpec == TermInit /\ [][TermNext]_vars

(***************************************************************************)
(* PostProcessor: each of the two fixing stages applied to a text and then *)
(* to its own output.  result.fix and result.term hold the outputs so far. *)
(***************************************************************************)
MaxPostPieces == 3

\* english: a variant that matches by case only; german: a correct term that
\* contains its wrong variant, and a correct term that is another's wrong variant
DictFixes ==
    [EmptyTerminology EXCEPT
       !.cm_english = << [correct_term |-> <<"o","k">>,
                          wrong_variants |-> << <<"a">>, <<"E","X","I","T">> >>] >>,
       !.cm_german  = << [correct_term |-> <<"a","y">>, wrong_variants |-> << <<"a">> >>],
                         [correct_term |-> <<"s">>, wrong_variants |-> << <<"y">> >>] >>]

PostPieces ==
    { <<"e","x","i","t">>, <<"E","x","i","t">>, <<"c","o","p","y","e","d">>,
      <<" ">>, <<"s">>, <<"a">>, <<"y">> }

LastOr(outputs, first) == IF outputs = <<>> THEN first ELSE outputs[Len(outputs)]

PostInit ==
    /\ pc = "post"
    /\ terminology \in {EmptyTerminology, DictFixes}
    /\ \E pair \in LangPairs : source_lang = pair[1] /\ target_lang = pair[2]
    /\ text \in TextsOf(PostPieces, MaxPostPieces)
    /\ model = "none"
    /\ data = <<>>
    /\ result = [fix |-> <<>>, term |-> <<>>]
    /\ ScorerIdle
    /\ RunIdle

FixCommonMistakes ==
    /\ pc = "post"
    /\ Len(result.fix) < 2
    /\ result' = [result EXCEPT
                    !.fix = Append(@, fix_common_mistakes(LastOr(@, text), target_lang))]
    /\ UNCHANGED <<pc, terminology, source_lang, target_lang, text, model, data, scorer_vars, run_vars>>

ApplyTerminologyFixes ==
    /\ pc = "post"
    /\ Len(result.term) < 2
    /\ result' = [result EXCEPT
                    !.term = Append(@, apply_terminology_fixes(LastOr(@, text),
                                                               source_lang, target_lang))]
    /\ UNCHANGED <<pc, terminology, source_lang, target_lang, text, model, data, scorer_vars, run_vars>>

PostNext == FixCommonMistakes \/ ApplyTerminologyFixes

PostSpec == PostInit /\ [][PostNext]_vars

(***************************************************************************)
(* HybridTranslator.translate_text_hybrid, called on one leaf string       *)
(***************************************************************************)
MaxLeafPieces == 3

Models == {"opus-mt-tr-en", "opus-mt-en-de", "constant", "empty"}

LeafPieces ==
    { <<"<","b",">">>, <<"<","/","b",">">>, <<"<","i"," ","e","x","i","t",">">>,
      <<"c","i","k","i","s">>, <<"h","i">>, <<" ">>, <<"<">> }

LeafInit ==
    /\ pc = "call"
    /\ terminology \in {EmptyTerminology, DictFixes}
    /\ \E pair \in LangPairs : source_lang = pair[1] /\ target_lang = pair[2]
    /\ text \in TextsOf(LeafPieces, MaxLeafPieces)
    /\ model \in Models
    /\ data = <<>>
    /\ result = <<>>
    /\ ScorerIdle
    /\ RunIdle

TranslateTextHybrid ==
    /\ pc = "call"
    /\ result' = translate_text_hybrid(text, source_lang, target_lang, model)
    /\ pc' = "done"
    /\ UNCHANGED <<terminology, source_lang, target_lang, text, model, data, scorer_vars, run_vars>>

LeafNext == TranslateTextHybrid

LeafSpec == LeafInit /\ [][LeafNext]_vars

(***************************************************************************)
(* HybridTranslator.translate_json_hybrid, called on any JSON value of at  *)
(* most MaxNodes nodes                                                     *)
(***************************************************************************)
MaxNodes == 4

JsonKeys == {"title", "items"}

JsonLeaves ==
    { [type |-> "str", s |-> <<"c","i","k","i","s">>],
      [type |-> "str", s |-> <<"<","b",">","h","i">>],
      [type |-> "int", n |-> 7],
      [type |-> "bool", b |-> TRUE],
      [type |-> "None"] }

\* the sequences of k distinct keys
KeySeqs(k) == {ks \in [1..k -> JsonKeys] : \A i, j \in 1..k : ks[i] = ks[j] => i = j}

RECURSIVE NodeCount(_)
NodeCount(v) ==
    LET kids == IF v.type = "dict" THEN v.values
                ELSE IF v.type = "list" THEN v.items ELSE <<>>
    IN  IF kids = <<>> THEN 1
        ELSE 1 + NodeCount(Head(kids))
               + NodeCount([type |-> "list", items |-> Tail(kids)]) - 1

RECURSIVE JsonValues(_)
RECURSIVE JsonSeqs(_)
\* the sequences of values with at most n nodes in all
JsonSeqs(n) ==
    {<<>>} \cup UNION {{<<v>> \o rest : rest \in JsonSeqs(n - NodeCount(v))} : v \in JsonValues(n)}

\* the values with at most n nodes
JsonValues(n) ==
    IF n <= 0 THEN {}
    ELSE JsonLeaves
         \cup {[type |-> "list", items |-> kids] : kids \in JsonSeqs(n - 1)}
         \cup UNION {{[type |-> "dict", keys |-> ks, values |-> kids] : ks \in KeySeqs(Len(kids))}
                     : kids \in JsonSeqs(n - 1)}

\* the two calls that translate_file_hybrid makes, and one with other arguments
JsonCalls ==
    { <<"turkish", "english", "opus-mt-tr-en">>,
      <<"english", "german", "opus-mt-en-de">>,
      <<"german", "french", "constant">> }

JsonInit ==
    /\ pc = "call"
    /\ terminology = DictFixes
    /\ \E call \in JsonCalls :
          source_lang = call[1] /\ target_lang = call[2] /\ model = call[3]
    /\ text = <<>>
    /\ data \in JsonValues(MaxNodes)
    /\ result = <<>>
    /\ ScorerIdle
    /\ RunIdle

TranslateJsonHybrid ==
    /\ pc = "call"
    /\ result' = translate_json_hybrid(data, source_lang, target_lang, model)
    /\ pc' = "done"
    /\ UNCHANGED <<terminology, source_lang, target_lang, text, model, data, scorer_vars, run_vars>>

JsonNext == TranslateJsonHybrid

JsonSpec == JsonInit /\ [][JsonNext]_vars

(***************************************************************************)
(* HybridTranslator.run_hybrid and translate_file_hybrid.  pc is the next  *)
(* statement; a file of an output folder is <<>> (absent), <<"partial">>   *)
(* (opened for writing, json.dump not finished) or <<"complete", value>>.  *)
(* An exception that nothing in run_hybrid catches ends the run in main.   *)
(***************************************************************************)
MaxFiles == 3

RunDocs ==
    { [type |-> "str", s |-> <<"c","i","k","i","s">>],
      [type |-> "dict", keys |-> <<"title", "items">>,
       values |-> <<[type |-> "str", s |-> <<"<","b",">","h","i">>],
                    [type |-> "list", items |-> <<[type |-> "int", n |-> 7]>>]>>] }

\* what open() and json.load() give for an input file
InputFiles == {[readable |-> TRUE, content |-> d] : d \in RunDocs}
                 \cup {[readable |-> FALSE, content |-> <<>>]}

RunInit ==
    /\ pc = "run_hybrid"
    /\ terminology \in {EmptyTerminology, DictFixes}
    /\ source_lang = "turkish"
    /\ target_lang = "english"
    /\ CallIdle
    /\ ScorerIdle
    /\ tr_files \in UNION {[1..n -> InputFiles] : n \in 0..MaxFiles}
    /\ file_idx = 0
    /\ original_data = <<>>
    /\ english_data = <<>>
    /\ german_data = <<>>
    /\ en_jsons_hybrid = [f \in DOMAIN tr_files |-> <<>>]
    /\ de_jsons_hybrid = [f \in DOMAIN tr_files |-> <<>>]
    /\ outcome = "running"

\* the value handed to the second translate_json_hybrid call, had it been the original
GermanSourceFromOriginal == original_data

\* the value handed to the second translate_json_hybrid call
GermanSource == english_data

\* the statements of translate_file_hybrid that do input or output
WriteSteps == {"open_english_file", "dump_english", "open_german_file", "dump_german"}

TranslateSteps == {"translate_english", "translate_german"}

\* a run leaves the variables of the single calls alone
RunFrame ==
    UNCHANGED <<terminology, source_lang, target_lang, text, model, data, result,
                scorer_vars>>

\* run_hybrid up to the loop: a missing input folder and a folder without *.json
\* files (tr_files is empty in both cases) end the run before the loop
RunHybrid ==
    /\ RunFrame
    /\ pc = "run_hybrid"
    /\ IF tr_files = <<>>
       THEN pc' = "exit" /\ outcome' = "no_files" /\ file_idx' = file_idx
       ELSE pc' = "makedirs" /\ outcome' = outcome /\ file_idx' = 1
    /\ UNCHANGED <<tr_files, original_data, english_data, german_data,
                   en_jsons_hybrid, de_jsons_hybrid>>

\* translate_file_hybrid returns: the loop goes to the next file or ends
NextFile(idx) ==
    IF idx < Len(tr_files)
    THEN pc' = "makedirs" /\ file_idx' = idx + 1 /\ outcome' = outcome
    ELSE pc' = "exit" /\ file_idx' = idx /\ outcome' = "finished"

MakeDirs ==
    /\ RunFrame
    /\ pc = "makedirs"
    /\ pc' = "read"
    /\ UNCHANGED run_vars

\* the input is loaded, or the failure is printed and translate_file_hybrid returns
ReadInput ==
    /\ RunFrame
    /\ pc = "read"
    /\ IF tr_files[file_idx].readable
       THEN /\ original_data' = tr_files[file_idx].content
            /\ pc' = "translate_english"
            /\ UNCHANGED <<file_idx, outcome>>
       ELSE /\ NextFile(file_idx)
            /\ UNCHANGED original_data
    /\ UNCHANGED <<tr_files, english_data, german_data, en_jsons_hybrid, de_jsons_hybrid>>

TranslateEnglish ==
    /\ RunFrame
    /\ pc = "translate_english"
    /\ english_data' = translate_json_hybrid(original_data, "turkish", "english",
                                             "opus-mt-tr-en")
    /\ pc' = "open_english_file"
    /\ UNCHANGED <<tr_files, file_idx, original_data, german_data,
                   en_jsons_hybrid, de_jsons_hybrid, outcome>>

OpenEnglishFile ==
    /\ RunFrame
    /\ pc = "open_english_file"
    /\ en_jsons_hybrid' = [en_jsons_hybrid EXCEPT ![file_idx] = <<"partial">>]
    /\ pc' = "dump_english"
    /\ UNCHANGED <<tr_files, file_idx, original_data, english_data, german_data,
                   de_jsons_hybrid, outcome>>

DumpEnglish ==
    /\ RunFrame
    /\ pc = "dump_english"
    /\ en_jsons_hybrid' = [en_jsons_hybrid EXCEPT ![file_idx] = <<"complete", english_data>>]
    /\ pc' = "translate_german"
    /\ UNCHANGED <<tr_files, file_idx, original_data, english_data, german_data,
                   de_jsons_hybrid, outcome>>

TranslateGerman ==
    /\ RunFrame
    /\ pc = "translate_german"
    /\ german_data' = translate_json_hybrid(GermanSource, "english", "german",
                                            "opus-mt-en-de")
    /\ pc' = "open_german_file"
    /\ UNCHANGED <<tr_files, file_idx, original_data, english_data,
                   en_jsons_hybrid, de_jsons_hybrid, outcome>>

OpenGermanFile ==
    /\ RunFrame
    /\ pc = "open_german_file"
    /\ de_jsons_hybrid' = [de_jsons_hybrid EXCEPT ![file_idx] = <<"partial">>]
    /\ pc' = "dump_german"
    /\ UNCHANGED <<tr_files, file_idx, original_data, english_data, german_data,
                   en_jsons_hybrid, outcome>>

DumpGerman ==
    /\ RunFrame
    /\ pc = "dump_german"
    /\ de_jsons_hybrid' = [de_jsons_hybrid EXCEPT ![file_idx] = <<"complete", german_data>>]
    /\ NextFile(file_idx)
    /\ UNCHANGED <<tr_files, original_data, english_data, german_data, en_jsons_hybrid>>

\* an exception leaves translate_file_hybrid and the loop of run_hybrid
Raise(how) ==
    /\ RunFrame
    /\ pc' = "exit"
    /\ outcome' = how
    /\ UNCHANGED <<tr_files, file_idx, original_data, english_data, german_data,
                   en_jsons_hybrid, de_jsons_hybrid>>

\* os.makedirs raises (the folder cannot be created)
MakeDirsFails == pc = "makedirs" /\ Raise("makedirs_error")

\* open(..., "w") or json.dump raises: neither is inside a try
WriteFails == pc \in WriteSteps /\ Raise("write_error")

\* the translation model raises
TranslationFails == pc \in TranslateSteps /\ Raise("translation_error")

\* KeyboardInterrupt, at any statement
Interrupt == pc \notin {"run_hybrid", "exit"} /\ Raise("interrupt")

RunNext ==
    \/ RunHybrid \/ MakeDirs \/ ReadInput
    \/ TranslateEnglish \/ OpenEnglishFile \/ DumpEnglish
    \/ TranslateGerman \/ OpenGermanFile \/ DumpGerman
    \/ MakeDirsFails \/ WriteFails \/ TranslationFails \/ Interrupt

RunSpec == RunInit /\ [][RunNext]_vars

(***************************************************************************)
(* Claims about the quality scorer (checked under ScorerSpec)              *)
(***************************************************************************)
IsBlank(s) == strip(s) = <<>>

TooShort(orig, trans) == 5 * Len(trans) < Len(orig)

HtmlMismatch(orig, trans) == find_tags(orig) # find_tags(trans)

IsCommonMistake(issue) == issue.type = "common_mistake"

CommonMistakeIssues(q) == SelectSeq(q.issues, IsCommonMistake)

IssueTypes(q) == {q.issues[i].type : i \in DOMAIN q.issues}

\* non-overlapping occurrences of w in s from position i on, as str.count counts them
RECURSIVE CountFrom(_, _, _)
CountFrom(s, w, i) ==
    IF i + Len(w) - 1 > Len(s) THEN 0
    ELSE IF MatchAt(s, w, i) THEN 1 + CountFrom(s, w, i + Len(w))
    ELSE CountFrom(s, w, i + 1)

RECURSIVE SumOccurrences(_, _)
SumOccurrences(entries, text_lower) ==
    IF entries = <<>> THEN 0
    ELSE CountFrom(text_lower, lower(Head(entries).wrong_term), 1)
         + SumOccurrences(Tail(entries), text_lower)

\* occurrences in text of all the wrong variants listed for lang, case-insensitively
TotalOccurrences(t, lang) ==
    SumOccurrences(MistakeEntries(common_mistakes(lang)), lower(t))

\* the listed (correct term, wrong variant) entries whose variant occurs in text
PresentEntries(t, lang) ==
    LET entries == MistakeEntries(common_mistakes(lang))
    IN  {i \in DOMAIN entries : Contains(lower(t), lower(entries[i].wrong_term))}

\* every listed variant that occurred in the previous translation still occurs
NoVariantLost ==
    PresentEntries(prev_scored[1], target_lang)
        \subseteq PresentEntries(translated, target_lang)

\* C3 as claimed: the score is at most 100 and one more occurrence of a known
\* wrong-term variant never increases it.
C3_ScoreNeverIncreases ==
    /\ quality.score <= 100
    /\ prev_scored # <<>> => quality.score <= prev_scored[2].score

C3_Provisos ==
    /\ prev_scored # <<>>
    /\ ~IsBlank(prev_scored[1])
    /\ NoVariantLost
    /\ TooShort(original, translated) = TooShort(original, prev_scored[1])
    /\ HtmlMismatch(original, translated) = HtmlMismatch(original, prev_scored[1])

\* C3 (amended): the score is at most 100; adding one more occurrence of a known
\* wrong-term variant to a non-blank translation never increases the score when
\* every variant that occurred before still occurs and the too_short and
\* html_mismatch verdicts stay the same.
C3_ScoreNeverIncreasesUnderProvisos ==
    /\ quality.score <= 100
    /\ C3_Provisos => quality.score <= prev_scored[2].score

\* a newly introduced variant was penalised, under the provisos
C3_Witness == C3_Provisos /\ quality.score < prev_scored[2].score

\* C4: a translation that is empty after trimming scores exactly 0, needs review
\* and carries an empty_translation issue of confidence 1.0, whatever else applies.
C4_EmptyTranslationOverride ==
    IsBlank(translated) =>
        /\ quality.score = 0
        /\ quality.needs_review = TRUE
        /\ \E i \in DOMAIN quality.issues :
              quality.issues[i] = [type |-> "empty_translation", confidence |-> "1.0"]

\* a blank translation with a common_mistake before and too_short, html_mismatch after
C4_Witness ==
    /\ IsBlank(translated)
    /\ translated # <<>>
    /\ IssueTypes(quality) =
         {"common_mistake", "empty_translation", "too_short", "html_mismatch"}
    /\ quality.score = 0

\* C5: the returned score lies in 0..100 and needs_review holds exactly when the
\* returned score is below 70.
C5_ScoreRangeAndReview ==
    /\ quality.score \in 0..100
    /\ quality.needs_review = (quality.score < 70)

\* six mistakes on a non-blank text: the accumulated score is negative and floored
C5_Witness ==
    /\ ~IsBlank(translated)
    /\ Len(CommonMistakeIssues(quality)) = 6
    /\ quality.score = 0
    /\ quality.needs_review

\* C10 as claimed: one common_mistake issue (and one penalty of 20) per occurrence
\* of a known wrong-term variant.
C10_PenaltyPerOccurrence ==
    Len(CommonMistakeIssues(quality)) = TotalOccurrences(translated, target_lang)

\* C10 (amended): one common_mistake issue of confidence 0.9 and one penalty of 20
\* per listed wrong variant that occurs at least once (case-insensitively) in the
\* translation, however often it occurs, with no cap before the floor at 0.
C10_PenaltyPerListedVariant ==
    LET k == Cardinality(PresentEntries(translated, target_lang))
        cm == CommonMistakeIssues(quality)
    IN  /\ Len(cm) = k
        /\ \A i \in DOMAIN cm : cm[i].confidence = "0.9"
        /\ Len(quality.issues) = k => quality.score = Max(0, 100 - 20 * k)

\* a variant that occurs more often than it is penalised
C10_Witness ==
    /\ Len(CommonMistakeIssues(quality)) >= 1
    /\ TotalOccurrences(translated, target_lang) > Len(CommonMistakeIssues(quality))
    /\ Len(quality.issues) = Len(CommonMistakeIssues(quality))

(***************************************************************************)
(* Claims about translate_with_terminology (checked under TermSpec)        *)
(***************************************************************************)
\* the word-level substitution as claimed: every token of the text is looked up
ClaimedWordLevel(t, src, tgt) ==
    LET words == split(t)
        Hit(w) == get_term_translation(clean_word(w), src, tgt)
        out == [i \in DOMAIN words |-> IF Truthy(Hit(words[i])) THEN Hit(words[i]).value
                                       ELSE words[i]]
    IN  IF \E i \in DOMAIN words : Truthy(Hit(words[i]))
        THEN <<join(out), TRUE>>
        ELSE <<t, FALSE>>

\* C6: a text without a whole-string match, a single token included, has each token
\* looked up (punctuation stripped, lowercased); matched tokens are replaced by the
\* target term, the rest kept; the result is (tokens joined by spaces, true) when a
\* token was substituted and (the text unchanged, false) otherwise.
C6_WordLevelSubstitution ==
    (pc = "done" /\ ~Truthy(get_term_translation(text, source_lang, target_lang)))
        => result = ClaimedWordLevel(text, source_lang, target_lang)

(***************************************************************************)
(* Claims about the fixing stages (checked under PostSpec)                 *)
(***************************************************************************)
\* C7 as claimed: the output of fix_common_mistakes is a fixed point of
\* fix_common_mistakes and the output of apply_terminology_fixes is a fixed point
\* of apply_terminology_fixes, for every text, language and dictionary.
C7_StagesIdempotent ==
    /\ Len(result.fix) = 2 => result.fix[2] = result.fix[1]
    /\ Len(result.term) = 2 => result.term[2] = result.term[1]

\* C7 (amended): the output of apply_terminology_fixes is a fixed point of it for
\* every text and language pair; the output of fix_common_mistakes is a fixed point
\* of it whenever that output contains no listed wrong variant of the target language.
C7_IdempotentWhenNoVariantIsLeft ==
    /\ Len(result.term) = 2 => result.term[2] = result.term[1]
    /\ (Len(result.fix) = 2 /\ check_common_mistakes(result.fix[1], target_lang) = <<>>)
          => result.fix[2] = result.fix[1]

\* both stages changed the text in their first pass and were applied a second time
C7_Witness ==
    /\ Len(result.term) = 2
    /\ Len(result.fix) = 2
    /\ result.term[1] # text
    /\ result.fix[1] # text
    /\ check_common_mistakes(result.fix[1], target_lang) = <<>>

(***************************************************************************)
(* Claims about translate_text_hybrid (checked under LeafSpec)             *)
(***************************************************************************)
\* the tag spans of a text, in order: the parts that re.split gives for its group
TagSpans(t) == SelectSeq(HtmlPartsFrom(t, 1, <<>>), IsTagPart)

\* the tags occur in out as substrings, one after the other, from position i on
RECURSIVE OccurInOrder(_, _, _)
OccurInOrder(out, tags, i) ==
    IF tags = <<>> THEN TRUE
    ELSE LET at == {j \in i..Len(out) : MatchAt(out, Head(tags), j)}
         IN  /\ at # {}
             /\ OccurInOrder(out, Tail(tags),
                             (CHOOSE j \in at : \A k \in at : j <= k) + Len(Head(tags)))

\* C2: for a leaf with markup and a translation function whose outputs hold no '<'
\* and no '>', the processed translation contains every tag span of the input
\* unmodified, in the input's order.
C2_TagSpansPreserved ==
    (pc = "done" /\ TagSpans(text) # <<>>)
        => OccurInOrder(result.processed_translation, TagSpans(text), 1)

(***************************************************************************)
(* Claims about translate_json_hybrid (checked under JsonSpec)             *)
(***************************************************************************)
\* out has the shape of in: the same keys in the same order, the same lengths,
\* every leaf that is not a string unchanged, every string leaf replaced by the
\* processed translation of that leaf
RECURSIVE SameShape(_, _)
SameShape(in, out) ==
    IF in.type = "dict"
    THEN /\ out.type = "dict"
         /\ out.keys = in.keys
         /\ Len(out.values) = Len(in.values)
         /\ \A k \in DOMAIN in.values : SameShape(in.values[k], out.values[k])
    ELSE IF in.type = "list"
    THEN /\ out.type = "list"
         /\ Len(out.items) = Len(in.items)
         /\ \A k \in DOMAIN in.items : SameShape(in.items[k], out.items[k])
    ELSE IF in.type = "str"
    THEN /\ out.type = "str"
         /\ out.s = translate_text_hybrid(in.s, source_lang, target_lang, model)
                        .processed_translation
    ELSE out = in

\* C1: translate_json_hybrid returns a value of the shape of its argument.
C1_ShapePreserved == pc = "done" => SameShape(data, result)

\* an object holding a list with a translated string and an untouched scalar
C1_Witness ==
    /\ pc = "done"
    /\ data.type = "dict"
    /\ Len(data.keys) = 1
    /\ data.values[1].type = "list"
    /\ Len(data.values[1].items) = 2
    /\ data.values[1].items[1].type = "str"
    /\ data.values[1].items[2].type = "int"
    /\ result.values[1].items[1] # data.values[1].items[1]
    /\ result.values[1].items[2] = data.values[1].items[2]

(***************************************************************************)
(* Claims about a run (checked under RunSpec)                              *)
(***************************************************************************)
Files == DOMAIN tr_files

IsComplete(file) == file # <<>> /\ file[1] = "complete"

\* C8: a file error on one file (its input cannot be read or parsed, an output
\* file cannot be created or written) skips only that file; every other file
\* that was found is still reached by the run.
C8_RunReachesEveryFile ==
    (pc = "exit" /\ outcome \in {"finished", "write_error"})
        => \A f \in Files : f <= file_idx

\* C9: the German output of a file is written only after its English output is
\* complete, and is the translation of that English tree; files are handled one
\* after another, so the files with a German output are among those with an
\* English output at every point, whatever cuts the run short.
C9_EnglishBeforeGerman ==
    \A f \in Files :
        /\ de_jsons_hybrid[f] # <<>> => IsComplete(en_jsons_hybrid[f])
        /\ IsComplete(de_jsons_hybrid[f]) =>
              de_jsons_hybrid[f][2] =
                  translate_json_hybrid(en_jsons_hybrid[f][2], "english", "german",
                                        "opus-mt-en-de")
        /\ f > file_idx => en_jsons_hybrid[f] = <<>> /\ de_jsons_hybrid[f] = <<>>
        /\ (f < file_idx /\ en_jsons_hybrid[f] # <<>>) =>
              IsComplete(en_jsons_hybrid[f]) /\ IsComplete(de_jsons_hybrid[f])

\* a run cut short in its second file, after the first file got both outputs and
\* the second its English output only
C9_Witness ==
    /\ pc = "exit"
    /\ outcome \in {"translation_error", "interrupt", "write_error"}
    /\ file_idx = 2
    /\ IsComplete(en_jsons_hybrid[1]) /\ IsComplete(de_jsons_hybrid[1])
    /\ de_jsons_hybrid[1][2] # en_jsons_hybrid[1][2]
    /\ IsComplete(en_jsons_hybrid[2]) /\ de_jsons_hybrid[2] = <<"partial">>

====
